---- MODULE Spec2Model ----
(***************************************************************************)
(* The browser extension of the webpage audio summarizer.                  *)
(*                                                                         *)
(* The sources hold three scripts that call the summarizer server:         *)
(*   background   src/unnamed/part_001, lines 12-189: the toolbar-click    *)
(*                listener of the background script;                       *)
(*   popup_open   src/extension/popup.js, lines 1-128: the popup that      *)
(*                fetches the summary of the current tab when it opens;    *)
(*   popup_click  src/extension/popup.js, lines 129-316: the popup with a  *)
(*                source selector and a Summarize button.                  *)
(* Each script runs in a JavaScript context of its own, so a behaviour of  *)
(* the model follows one script: Init chooses it.  Inside one context the  *)
(* code between two awaits is one atomic step, and the continuations of    *)
(* different handler invocations interleave freely.                        *)
(***************************************************************************)
EXTENDS Integers, Sequences, FiniteSets, TLC

\* ------------------------------------------------------------------ bounds
\* handler invocations (toolbar clicks, Summarize clicks) per behaviour
MaxClicks == 2
\* clicks on the popup's replay button per behaviour
MaxReplays == 1
\* length of the byte sequences of the base64 round trip
MaxLen == 3

\* ----------------------------------------------------------------- strings
\* A JavaScript string is a sequence of pieces, each piece a TLA+ string: the
\* characters where the code looks at characters (URLs, base64), the parts of
\* a template where it concatenates (messages).

\* String.prototype.startsWith
StartsWith(s, prefix) ==
    /\ Len(s) >= Len(prefix)
    /\ SubSeq(s, 1, Len(prefix)) = prefix

\* the value of a property that an object does not have
Undefined == <<"<undefined>">>

\* JavaScript truthiness of a string-or-undefined value
Truthy(v) == v # Undefined /\ v # <<>>

\* a || b on string-or-undefined values
OrElse(a, b) == IF Truthy(a) THEN a ELSE b

\* ------------------------------------------------------------------ base64
Base64Alphabet ==
    << "A","B","C","D","E","F","G","H","I","J","K","L","M","N","O","P",
       "Q","R","S","T","U","V","W","X","Y","Z","a","b","c","d","e","f",
       "g","h","i","j","k","l","m","n","o","p","q","r","s","t","u","v",
       "w","x","y","z","0","1","2","3","4","5","6","7","8","9","+","/" >>

Base64Chars == { Base64Alphabet[i] : i \in 1..64 }

\* the six bits each character of the alphabet stands for
SextetTable ==
    [ c \in Base64Chars |-> (CHOOSE i \in 1..64 : Base64Alphabet[i] = c) - 1 ]

SextetOf(c) == SextetTable[c]

\* The transport encoding of the audio bytes (RFC 4648, with padding), as the
\* server produces audio_base64.
RECURSIVE Base64Encode(_)
Base64Encode(bytes) ==
    IF Len(bytes) = 0 THEN <<>>
    ELSE IF Len(bytes) = 1 THEN
        << Base64Alphabet[(bytes[1] \div 4) + 1],
           Base64Alphabet[((bytes[1] % 4) * 16) + 1], "=", "=" >>
    ELSE IF Len(bytes) = 2 THEN
        << Base64Alphabet[(bytes[1] \div 4) + 1],
           Base64Alphabet[((bytes[1] % 4) * 16) + (bytes[2] \div 16) + 1],
           Base64Alphabet[((bytes[2] % 16) * 4) + 1], "=" >>
    ELSE
        << Base64Alphabet[(bytes[1] \div 4) + 1],
           Base64Alphabet[((bytes[1] % 4) * 16) + (bytes[2] \div 16) + 1],
           Base64Alphabet[((bytes[2] % 16) * 4) + (bytes[3] \div 64) + 1],
           Base64Alphabet[(bytes[3] % 64) + 1] >>
        \o Base64Encode(SubSeq(bytes, 4, Len(bytes)))

\* atob, step 1: one or two trailing "=" are removed when the length is a
\* multiple of four.
StripPadding(s) ==
    IF Len(s) > 0 /\ Len(s) % 4 = 0 /\ s[Len(s)] = "="
    THEN IF s[Len(s) - 1] = "="
         THEN SubSeq(s, 1, Len(s) - 2)
         ELSE SubSeq(s, 1, Len(s) - 1)
    ELSE s

\* atob throws InvalidCharacterError on these inputs.
AtobThrows(s) ==
    LET d == StripPadding(s) IN
    \/ Len(d) % 4 = 1
    \/ \E i \in 1..Len(d) : d[i] \notin Base64Chars

\* atob, step 2: the code units of the binary string, one per decoded byte;
\* the bits left over in the last group are dropped.
RECURSIVE DecodeGroups(_)
DecodeGroups(d) ==
    IF Len(d) <= 1 THEN <<>>
    ELSE IF Len(d) = 2 THEN
        << (SextetOf(d[1]) * 4) + (SextetOf(d[2]) \div 16) >>
    ELSE IF Len(d) = 3 THEN
        << (SextetOf(d[1]) * 4) + (SextetOf(d[2]) \div 16),
           ((SextetOf(d[2]) % 16) * 16) + (SextetOf(d[3]) \div 4) >>
    ELSE
        << (SextetOf(d[1]) * 4) + (SextetOf(d[2]) \div 16),
           ((SextetOf(d[2]) % 16) * 16) + (SextetOf(d[3]) \div 4),
           ((SextetOf(d[3]) % 4) * 64) + SextetOf(d[4]) >>
        \o DecodeGroups(SubSeq(d, 5, Len(d)))

Atob(s) == DecodeGroups(StripPadding(s))

\* new Uint8Array(len) filled by bytes[i] = binaryString.charCodeAt(i): a
\* store into a Uint8Array keeps the value modulo 256.
Uint8Store(binaryString) ==
    [ i \in 1..Len(binaryString) |-> binaryString[i] % 256 ]

\* The failure of a decode, and the decoded buffer otherwise.
Thrown == << -1 >>

\* mutant: the copy loop stops one byte early (i < len - 1)
base64ToArrayBuffer_shortLoop(base64) ==
    IF AtobThrows(base64) THEN Thrown
    ELSE LET binaryString == Atob(base64) IN
         [ i \in 1..Len(binaryString) |->
             IF i < Len(binaryString) THEN binaryString[i] % 256 ELSE 0 ]

base64ToArrayBuffer(base64) ==
    IF AtobThrows(base64) THEN Thrown ELSE Uint8Store(Atob(base64))

\* the atob loop of the popup's decodeAudioData
popup_atobBytes(base64String) ==
    IF AtobThrows(base64String) THEN Thrown ELSE Uint8Store(Atob(base64String))

\* ------------------------------------------------------------------ inputs
Url(chars) == chars

\* chrome's Tab objects; url is undefined without the tabs permission
Tabs ==
    { [id |-> 1, url |-> Url(<<"h","t","t","p","s",":","/","/","a">>)],
      [id |-> 2, url |-> Url(<<"f","t","p",":","/","/","c">>)],
      [id |-> 3, url |-> Url(<<"h","t","t","p","x",":","/","/","d">>)],
      [id |-> 4, url |-> Undefined] }

TabIds == { t.id : t \in Tabs }
NoTab == [id |-> 0, url |-> Undefined]

\* the bytes of an audio file, and strings the server may send as audio_base64
AudioBytes == << 82, 73, 70, 70, 255 >>
ValidAudio == Base64Encode(AudioBytes)
CorruptAudio == << "U", "k", "l", "G", "!" >>

\* a response body: not JSON at all, or a JSON object with some of the fields
NotJson == [json |-> FALSE, error |-> Undefined, summary_text |-> Undefined,
            audio_base64 |-> Undefined]
Obj(e, s, a) == [json |-> TRUE, error |-> e, summary_text |-> s, audio_base64 |-> a]

ServerError == << "quota exceeded" >>
SummaryText == << "A summary." >>

Bodies ==
    { NotJson,
      Obj(<<>>, SummaryText, ValidAudio),
      Obj(ServerError, SummaryText, ValidAudio),
      Obj(Undefined, SummaryText, ValidAudio),
      Obj(Undefined, SummaryText, CorruptAudio),
      Obj(Undefined, SummaryText, <<>>),
      Obj(Undefined, SummaryText, Undefined),
      Obj(Undefined, <<>>, ValidAudio),
      Obj(Undefined, Undefined, ValidAudio) }

OkResponses == { [ok |-> TRUE, status |-> "200", statusText |-> "OK", body |-> b] :
                 b \in Bodies }
ErrorResponses ==
    { [ok |-> FALSE, status |-> "500", statusText |-> "INTERNAL SERVER ERROR",
       body |-> b] :
      b \in { NotJson, Obj(Undefined, Undefined, Undefined),
              Obj(ServerError, Undefined, Undefined),
              Obj(<<>>, Undefined, Undefined) } }
Responses == OkResponses \cup ErrorResponses
\* a second summary, with its own audio: what the server answers for another
\* source than the one SummaryText belongs to
OtherSummaryText == << "Another summary." >>
OtherAudioBytes == << 82, 73, 70, 70, 0 >>
OtherAudio == Base64Encode(OtherAudioBytes)
OtherResponse == [ok |-> TRUE, status |-> "200", statusText |-> "OK",
                  body |-> Obj(Undefined, OtherSummaryText, OtherAudio)]
\* the responses the popup with the Summarize button may get for its requests
ClickResponses == Responses \cup { OtherResponse }
NoResponse == [ok |-> FALSE, status |-> "0", statusText |-> "", body |-> NotJson]

\* JSON.stringify of an object: a property whose value is undefined is left out
JsonStringify(obj) ==
    [ k \in { n \in DOMAIN obj : obj[n] # Undefined } |-> obj[k] ]

\* messages of the exceptions the platform throws
FailedToFetch == << "Failed to fetch" >>
NotValidJson == << "Unexpected token < in JSON" >>
NoAudioContext == << "AudioContext is not a constructor" >>
UnableToDecode == << "Unable to decode audio data" >>
NotCorrectlyEncoded == << "The string to be decoded is not correctly encoded." >>

\* --------------------------------------------------------------- the state
Scripts == { "background", "popup_open", "popup_click" }
Clicks == 1..MaxClicks

VARIABLES
    script,             \* the script this behaviour follows
    pc,                 \* pc[i]: where handler invocation i is suspended
    tab,                \* tab[i]: the tab the invocation works on
    response,           \* response[i]: the Response the invocation holds
    requests,           \* requests[i]: the bodies the invocation has POSTed
    \* background script
    notifications,      \* notifications[i]: those the invocation created
    badge,              \* badge[t]: the badge text of tab t
    badgeColor,         \* badgeColor[t]: the badge background of tab t
    audioContext,       \* the state of the global AudioContext
    currentAudioSource, \* 0 for null, or the invocation whose source it is
    source,             \* source[i]: the AudioBufferSourceNode of invocation i
    arrayBuffer,        \* arrayBuffer[i]: the bytes handed to playAudio
    \* popup
    statusDiv,          \* statusDiv.textContent
    summaryContainer,   \* summaryContainer.textContent
    summaryShown,       \* the display of the summary and controls areas
    replayDisabled,     \* replayButton.disabled
    summarizeDisabled,  \* summarizeButton.disabled
    audioBuffer,        \* 0 for null, or the invocation whose audio it holds
    playing,            \* started sources whose onended has not run
    replays,            \* clicks on the replay button so far
    \* base64 round trip
    bytesIn, encoded, decodedBackground, decodedPopup

handlerVars == << pc, tab, response, requests >>
backgroundVars == << notifications, badge, badgeColor, audioContext,
                     currentAudioSource, source, arrayBuffer >>
popupVars == << statusDiv, summaryContainer, summaryShown, replayDisabled,
                summarizeDisabled, audioBuffer, playing, replays >>
base64Vars == << bytesIn, encoded, decodedBackground, decodedPopup >>
vars == << script, handlerVars, backgroundVars, popupVars, base64Vars >>

\* ------------------------------------------------------ background script
\* The notifications are in Chinese in the source; the model carries an
\* English rendering of each title and fixed text.
Notification(title, message) == [title |-> title, message |-> message]

\* part_001 113-118
InvalidUrlNotice ==
    Notification(<<"Cannot summarize">>,
                 <<"This extension cannot summarize the current page (invalid URL).">>)
\* part_001 32-37
CorruptAudioNotice ==
    Notification(<<"Playback error">>,
                 <<"The audio data received from the server is malformed.">>)
\* part_001 95-100
CannotPlayNotice(message) ==
    Notification(<<"Playback error">>, <<"Cannot play audio: ">> \o message)
\* part_001 163-168
NoAudioNotice ==
    Notification(<<"Summary result">>,
                 <<"The server answered, but no valid audio summary was received.">>)
\* part_001 173-178
ProcessingErrorNotice(message) ==
    Notification(<<"Processing error">>, <<"An error occurred: ">> \o message)

InvalidBase64Message == << "Invalid Base64 audio data received." >>

\* the URL check both the background script and the Summarize click make
IsHttpUrl(url) ==
    /\ Truthy(url)
    /\ \/ StartsWith(url, <<"h","t","t","p",":">>)
       \/ StartsWith(url, <<"h","t","t","p","s",":">>)

\* the body of the POST of the background script
bg_requestBody(t) ==
    JsonStringify([url |-> t.url, summarizer_choice |-> <<"gemini">>])

\* errorMsg of a response that is not ok, once response.json() has settled
bg_errorMsg(r) ==
    IF r.body.json
    THEN OrElse(r.body.error, <<"Server error ", r.status>>)
    ELSE <<"Server error ", r.status, ": ", r.statusText>>

\* mutant: the finally leaves the badge as it is
bg_finally_keepBadge(i) ==
    /\ UNCHANGED badge
    /\ pc' = [pc EXCEPT ![i] = "await_clearBadge"]

\* finally: the badge of the tab is cleared
bg_finally(i) ==
    /\ badge' = [badge EXCEPT ![tab[i].id] = <<>>]
    /\ pc' = [pc EXCEPT ![i] = "await_clearBadge"]

\* catch (error) of the listener, entered after the notifications `before`
\* were created on the way to the throw, and the finally after it
bg_catch(i, before, message) ==
    /\ notifications' = [notifications EXCEPT
                           ![i] = @ \o before \o <<ProcessingErrorNotice(message)>>]
    /\ bg_finally(i)
    /\ UNCHANGED << audioContext, currentAudioSource, source >>

\* playAudio from "Stop any currently playing audio" to the await of
\* decodeAudioData, with ctx the state of the audio context it runs in
bg_playAudio_stopAndDecode(i, ctx) ==
    /\ audioContext' = ctx
    /\ source' = IF currentAudioSource # 0 /\ source[currentAudioSource] = "playing"
                 THEN [source EXCEPT ![currentAudioSource] = "stopped"]
                 ELSE source
    /\ currentAudioSource' = 0
    /\ pc' = [pc EXCEPT ![i] = "await_decodeAudioData"]
    /\ UNCHANGED << notifications, badge >>

\* playAudio at new AudioContext(), which gives a running or a suspended
\* context or throws where the constructor does not exist
bg_playAudio_newContext(i, created) ==
    IF created = "throws" THEN bg_catch(i, <<>>, NoAudioContext)
    ELSE IF created = "suspended"
    THEN /\ audioContext' = "suspended"
         /\ pc' = [pc EXCEPT ![i] = "await_resume"]
         /\ UNCHANGED << notifications, badge, currentAudioSource, source >>
    ELSE bg_playAudio_stopAndDecode(i, "running")

\* playAudio from its first line
bg_playAudio(i, created) ==
    IF audioContext = "null" THEN bg_playAudio_newContext(i, created)
    ELSE IF audioContext = "suspended"
    THEN /\ pc' = [pc EXCEPT ![i] = "await_close"]
         /\ UNCHANGED << notifications, badge, audioContext, currentAudioSource,
                         source >>
    ELSE bg_playAudio_stopAndDecode(i, audioContext)

ContextOutcomes == { "running", "suspended", "throws" }

\* chrome.action.onClicked: the URL check, then the badge
BgClicked(i, t) ==
    /\ script = "background"
    /\ pc[i] = "idle"
    /\ \A j \in Clicks : j < i => pc[j] # "idle"
    /\ tab' = [tab EXCEPT ![i] = t]
    /\ IF ~IsHttpUrl(t.url)
       THEN /\ notifications' = [notifications EXCEPT ![i] = @ \o <<InvalidUrlNotice>>]
            /\ pc' = [pc EXCEPT ![i] = "done"]
            /\ UNCHANGED badge
       ELSE /\ badge' = [badge EXCEPT ![t.id] = <<"...">>]
            /\ pc' = [pc EXCEPT ![i] = "await_setBadgeText"]
            /\ UNCHANGED notifications
    /\ UNCHANGED << script, response, requests, badgeColor, audioContext,
                    currentAudioSource, source, arrayBuffer, popupVars, base64Vars >>

\* setBadgeText('...') has settled: setBadgeBackgroundColor
BgBadgeTextSet(i) ==
    /\ script = "background"
    /\ pc[i] = "await_setBadgeText"
    /\ badgeColor' = [badgeColor EXCEPT ![tab[i].id] = <<"#FFA500">>]
    /\ pc' = [pc EXCEPT ![i] = "await_setBadgeBackgroundColor"]
    /\ UNCHANGED << script, tab, response, requests, notifications, badge,
                    audioContext, currentAudioSource, source, arrayBuffer,
                    popupVars, base64Vars >>

\* setBadgeBackgroundColor has settled: the POST is sent
BgFetch(i) ==
    /\ script = "background"
    /\ pc[i] = "await_setBadgeBackgroundColor"
    /\ requests' = [requests EXCEPT ![i] = Append(@, bg_requestBody(tab[i]))]
    /\ pc' = [pc EXCEPT ![i] = "await_fetch"]
    /\ UNCHANGED << script, tab, response, backgroundVars, popupVars, base64Vars >>

\* fetch rejects: the server cannot be reached
BgFetchRejected(i) ==
    /\ script = "background"
    /\ pc[i] = "await_fetch"
    /\ bg_catch(i, <<>>, FailedToFetch)
    /\ UNCHANGED << script, tab, response, requests, badgeColor, arrayBuffer,
                    popupVars, base64Vars >>

\* fetch resolves with a response: response.json() is awaited on either branch
BgFetchResolved(i, r) ==
    /\ script = "background"
    /\ pc[i] = "await_fetch"
    /\ response' = [response EXCEPT ![i] = r]
    /\ pc' = [pc EXCEPT ![i] = IF r.ok THEN "await_json" ELSE "await_errorJson"]
    /\ UNCHANGED << script, tab, requests, backgroundVars, popupVars, base64Vars >>

\* response.json() of a response that is not ok has settled
BgErrorJsonSettled(i) ==
    /\ script = "background"
    /\ pc[i] = "await_errorJson"
    /\ bg_catch(i, <<>>, bg_errorMsg(response[i]))
    /\ response' = [response EXCEPT ![i] = NoResponse]
    /\ UNCHANGED << script, tab, requests, badgeColor, arrayBuffer, popupVars,
                    base64Vars >>

\* response.json() of an ok response has settled: the data is examined, the
\* audio converted and playAudio entered
BgJsonSettled(i, created) ==
    /\ script = "background"
    /\ pc[i] = "await_json"
    /\ response' = [response EXCEPT ![i] = NoResponse]
    /\ LET data == response[i].body IN
       IF ~data.json
       THEN bg_catch(i, <<>>, NotValidJson) /\ UNCHANGED arrayBuffer
       ELSE IF Truthy(data.error)
       THEN bg_catch(i, <<>>, data.error) /\ UNCHANGED arrayBuffer
       ELSE IF Truthy(data.audio_base64) /\ Len(data.audio_base64) > 0
       THEN \E audio \in { base64ToArrayBuffer(data.audio_base64) } :
            IF audio = Thrown
            THEN /\ bg_catch(i, <<CorruptAudioNotice>>, InvalidBase64Message)
                 /\ UNCHANGED arrayBuffer
            ELSE /\ arrayBuffer' = [arrayBuffer EXCEPT ![i] = audio]
                 /\ bg_playAudio(i, created)
       ELSE /\ notifications' = [notifications EXCEPT ![i] = @ \o <<NoAudioNotice>>]
            /\ bg_finally(i)
            /\ UNCHANGED << audioContext, currentAudioSource, source, arrayBuffer >>
    /\ UNCHANGED << script, tab, requests, badgeColor, popupVars, base64Vars >>

\* audioContext.close() has settled: a new context is created
BgContextClosed(i, created) ==
    /\ script = "background"
    /\ pc[i] = "await_close"
    /\ bg_playAudio_newContext(i, created)
    /\ UNCHANGED << script, tab, response, requests, badgeColor, arrayBuffer,
                    popupVars, base64Vars >>

\* audioContext.resume() has settled
BgContextResumed(i) ==
    /\ script = "background"
    /\ pc[i] = "await_resume"
    /\ bg_playAudio_stopAndDecode(i, "running")
    /\ UNCHANGED << script, tab, response, requests, badgeColor, arrayBuffer,
                    popupVars, base64Vars >>

\* decodeAudioData has settled: the source is started, or the failure notified
\* inside playAudio; the listener then reaches its finally
BgDecodeSettled(i, decoded) ==
    /\ script = "background"
    /\ pc[i] = "await_decodeAudioData"
    /\ IF decoded
       THEN /\ source' = [source EXCEPT ![i] = "playing"]
            /\ currentAudioSource' = i
            /\ UNCHANGED notifications
       ELSE /\ notifications' = [notifications EXCEPT
                                   ![i] = @ \o <<CannotPlayNotice(UnableToDecode)>>]
            /\ UNCHANGED << source, currentAudioSource >>
    /\ bg_finally(i)
    /\ UNCHANGED << script, tab, response, requests, badgeColor, audioContext,
                    arrayBuffer, popupVars, base64Vars >>

\* setBadgeText('') has settled: the listener returns
BgBadgeCleared(i) ==
    /\ script = "background"
    /\ pc[i] = "await_clearBadge"
    /\ pc' = [pc EXCEPT ![i] = "done"]
    /\ UNCHANGED << script, tab, response, requests, backgroundVars, popupVars,
                    base64Vars >>

\* source.onended, after the audio has played to its end or was stopped
BgSourceEnded(i) ==
    /\ script = "background"
    /\ source[i] \in { "playing", "stopped" }
    /\ source' = [source EXCEPT ![i] = "ended"]
    /\ currentAudioSource' = 0
    /\ UNCHANGED << script, handlerVars, notifications, badge, badgeColor,
                    audioContext, arrayBuffer, popupVars, base64Vars >>

BackgroundNext ==
    \/ \E i \in Clicks, t \in Tabs : BgClicked(i, t)
    \/ \E i \in Clicks : BgBadgeTextSet(i)
    \/ \E i \in Clicks : BgFetch(i)
    \/ \E i \in Clicks : BgFetchRejected(i)
    \/ \E i \in Clicks, r \in Responses : BgFetchResolved(i, r)
    \/ \E i \in Clicks : BgErrorJsonSettled(i)
    \/ \E i \in Clicks, created \in ContextOutcomes : BgJsonSettled(i, created)
    \/ \E i \in Clicks, created \in ContextOutcomes : BgContextClosed(i, created)
    \/ \E i \in Clicks : BgContextResumed(i)
    \/ \E i \in Clicks, decoded \in BOOLEAN : BgDecodeSettled(i, decoded)
    \/ \E i \in Clicks : BgBadgeCleared(i)
    \/ \E i \in Clicks : BgSourceEnded(i)

\* -------------------------------------------------------------------- popup
\* Both popups share the page: the status line, the summary container, the
\* replay button and the global audioBuffer.
StatusError(message) == <<"Error: ">> \o message
MissingData == << "Server response missing summary or audio data." >>
InvalidTabUrl == << "Invalid URL for current tab." >>
ResetPrompt == << "Select source and click Summarize." >>

\* String.prototype.substring(0, n)
Substring0(str, n) == SubSeq(str, 1, IF Len(str) < n THEN Len(str) ELSE n)

\* showSummaryArea
showSummaryArea(show) == summaryShown' = show

\* updateStatus, for the writes of one step in their order: the last one stays
updateStatus(messages) == statusDiv' = messages[Len(messages)]

\* mutant: resetUI leaves the replay button as it is
resetUI_keepReplay(after) ==
    /\ updateStatus(<<ResetPrompt>> \o after)
    /\ summaryContainer' = <<>>
    /\ showSummaryArea(FALSE)
    /\ replayDisabled' = replayDisabled
    /\ audioBuffer' = 0

\* resetUI, followed in the same step by the updateStatus calls `after`
resetUI(after) ==
    /\ updateStatus(<<ResetPrompt>> \o after)
    /\ summaryContainer' = <<>>
    /\ showSummaryArea(FALSE)
    /\ replayDisabled' = TRUE
    /\ audioBuffer' = 0

\* playAudio(buffer) of the popups: the status line it leaves and the sources
\* it has started
popup_playAudio(buffer) ==
    IF buffer = 0
    THEN /\ statusDiv' = StatusError(<<"No audio available.">>)
         /\ UNCHANGED playing
    ELSE /\ statusDiv' = <<"Playing summary...">>
         /\ playing' = playing + 1

\* the click listener of the replay button; a disabled button takes no click
ReplayClicked ==
    /\ script \in { "popup_open", "popup_click" }
    /\ ~replayDisabled
    /\ replays < MaxReplays
    /\ replays' = replays + 1
    /\ popup_playAudio(audioBuffer)
    /\ UNCHANGED << script, handlerVars, backgroundVars, summaryContainer,
                    summaryShown, replayDisabled, summarizeDisabled, audioBuffer,
                    base64Vars >>

\* source.onended of a source the popup started
PopupSourceEnded ==
    /\ script \in { "popup_open", "popup_click" }
    /\ playing > 0
    /\ playing' = playing - 1
    /\ statusDiv' = <<"Summary finished.">>
    /\ UNCHANGED << script, handlerVars, backgroundVars, summaryContainer,
                    summaryShown, replayDisabled, summarizeDisabled, audioBuffer,
                    replays, base64Vars >>

\* ------------------------------------------- popup that fetches when opened
\* The script runs once per popup: its only invocation is number 1, suspended
\* in chrome.tabs.query when the script has run.
popup_open_requestBody(pageUrl) ==
    JsonStringify([url |-> pageUrl, summarizer_choice |-> <<"gemini">>])

\* The message of the error the first .then of the chain rejects with when the
\* response is not ok: response.json().then(throw A).catch(() => throw B).
popup_open_errorMessage(r) ==
    LET generic == <<"HTTP error! status: ", r.status>>
        jsonSettles == IF r.body.json THEN "resolved" ELSE "rejected"
        \* .then(errData => { throw ... }) runs on a resolved promise only, and
        \* rejects; a rejected promise passes its rejection on
        afterThen == [rejected |-> TRUE,
                      message |-> IF jsonSettles = "resolved"
                                  THEN OrElse(r.body.error, generic)
                                  ELSE NotValidJson]
    \* .catch(() => { throw ... }) runs on every rejection that reaches it
    IN  IF afterThen.rejected THEN generic ELSE afterThen.message

\* the checks of the second .then on the parsed body: the message of the error
\* it throws, or <<>> when it throws none
popup_open_dataError(data) ==
    IF Truthy(data.error) THEN data.error
    ELSE IF ~Truthy(data.summary_text) \/ ~Truthy(data.audio_base64) THEN MissingData
    ELSE <<>>

\* mutant: the catch leaves the summary on the page
popup_open_catch_keepSummary(i, message) ==
    /\ replayDisabled' = TRUE
    /\ statusDiv' = StatusError(message)
    /\ pc' = [pc EXCEPT ![i] = "done"]
    /\ UNCHANGED << summaryContainer, summaryShown, audioBuffer, playing >>

\* .catch(error => ...) at the end of the chain
popup_open_catch(i, message) ==
    /\ replayDisabled' = TRUE
    /\ statusDiv' = StatusError(message)
    /\ summaryContainer' = <<>>
    /\ pc' = [pc EXCEPT ![i] = "done"]
    /\ UNCHANGED << summaryShown, audioBuffer, playing >>

\* the callback of chrome.tabs.query
OpenTabsQueried(t) ==
    /\ script = "popup_open"
    /\ pc[1] = "await_tabsQuery"
    /\ tab' = [tab EXCEPT ![1] = t]
    /\ IF t = NoTab \/ ~Truthy(t.url)
       THEN /\ statusDiv' = StatusError(<<"Could not get current tab URL.">>)
            /\ pc' = [pc EXCEPT ![1] = "done"]
            /\ UNCHANGED requests
       ELSE /\ statusDiv' = <<"Fetching summary for: ">> \o Substring0(t.url, 50)
                            \o <<"...">>
            /\ requests' = [requests EXCEPT
                              ![1] = Append(@, popup_open_requestBody(t.url))]
            /\ pc' = [pc EXCEPT ![1] = "await_fetch"]
    /\ UNCHANGED << script, response, backgroundVars, summaryContainer,
                    summaryShown, replayDisabled, summarizeDisabled, audioBuffer,
                    playing, replays, base64Vars >>

OpenFetchRejected ==
    /\ script = "popup_open"
    /\ pc[1] = "await_fetch"
    /\ popup_open_catch(1, FailedToFetch)
    /\ UNCHANGED << script, tab, response, requests, backgroundVars,
                    summarizeDisabled, replays, base64Vars >>

OpenFetchResolved(r) ==
    /\ script = "popup_open"
    /\ pc[1] = "await_fetch"
    /\ response' = [response EXCEPT ![1] = r]
    /\ pc' = [pc EXCEPT ![1] = IF r.ok THEN "await_json" ELSE "await_errorJson"]
    /\ UNCHANGED << script, tab, requests, backgroundVars, popupVars, base64Vars >>

OpenErrorJsonSettled ==
    /\ script = "popup_open"
    /\ pc[1] = "await_errorJson"
    /\ popup_open_catch(1, popup_open_errorMessage(response[1]))
    /\ response' = [response EXCEPT ![1] = NoResponse]
    /\ UNCHANGED << script, tab, requests, backgroundVars, summarizeDisabled,
                    replays, base64Vars >>

\* the second .then: the data is examined, the summary shown, the audio
\* converted by decodeAudioData up to its await
OpenJsonSettled ==
    /\ script = "popup_open"
    /\ pc[1] = "await_json"
    /\ response' = [response EXCEPT ![1] = NoResponse]
    /\ LET data == response[1].body IN
       IF ~data.json
       THEN popup_open_catch(1, NotValidJson) /\ UNCHANGED arrayBuffer
       ELSE IF popup_open_dataError(data) # <<>>
       THEN popup_open_catch(1, popup_open_dataError(data)) /\ UNCHANGED arrayBuffer
       ELSE \E bytes \in { popup_atobBytes(data.audio_base64) } :
       IF bytes = Thrown
       THEN popup_open_catch(1, NotCorrectlyEncoded) /\ UNCHANGED arrayBuffer
       ELSE /\ summaryContainer' = data.summary_text
            /\ statusDiv' = <<"Decoding audio...">>
            /\ arrayBuffer' = [arrayBuffer EXCEPT ![1] = bytes]
            /\ pc' = [pc EXCEPT ![1] = "await_decodeAudioData"]
            /\ UNCHANGED << summaryShown, replayDisabled, audioBuffer, playing >>
    /\ UNCHANGED << script, tab, requests, notifications, badge, badgeColor,
                    audioContext, currentAudioSource, source, summarizeDisabled,
                    replays, base64Vars >>

\* audioContext.decodeAudioData has settled: the third .then, or the catch
OpenDecodeSettled(decoded) ==
    /\ script = "popup_open"
    /\ pc[1] = "await_decodeAudioData"
    /\ IF decoded
       THEN /\ audioBuffer' = 1
            /\ replayDisabled' = FALSE
            /\ popup_playAudio(1)
            /\ pc' = [pc EXCEPT ![1] = "done"]
            /\ UNCHANGED << summaryContainer, summaryShown >>
       ELSE popup_open_catch(1, UnableToDecode)
    /\ UNCHANGED << script, tab, response, requests, backgroundVars,
                    summarizeDisabled, replays, base64Vars >>

PopupOpenNext ==
    \/ \E t \in Tabs \cup { NoTab } : OpenTabsQueried(t)
    \/ OpenFetchRejected
    \/ \E r \in Responses : OpenFetchResolved(r)
    \/ OpenErrorJsonSettled
    \/ OpenJsonSettled
    \/ \E decoded \in BOOLEAN : OpenDecodeSettled(decoded)

\* ------------------------------------------ popup with a Summarize button
CurrentTab == << "current_tab" >>
RssFeed == << "https://feed.example/rss" >>
\* the values of the options of sourceSelect
SourceOptions == { CurrentTab, RssFeed }

\* mutant: the selected value is sent as rss_url for the current tab too
popup_click_requestBody_both(selectedValue, url) ==
    JsonStringify([summarizer_choice |-> <<"gemini">>, url |-> url,
                   rss_url |-> selectedValue])

\* the requestBody the click listener hands to fetchSummaryAndPlay
popup_click_requestBody(selectedValue, url) ==
    IF selectedValue = CurrentTab
    THEN JsonStringify([summarizer_choice |-> <<"gemini">>, url |-> url,
                        rss_url |-> Undefined])
    ELSE JsonStringify([summarizer_choice |-> <<"gemini">>, url |-> Undefined,
                        rss_url |-> selectedValue])

\* errorMsg of fetchSummaryAndPlay for a response that is not ok
popup_click_errorMsg(r) ==
    IF r.body.json
    THEN OrElse(r.body.error, <<"Server error (", r.status, ")">>)
    ELSE <<"Server error (", r.status, ")">>

\* mutant: only the audio is required of the body
popup_click_dataError_audioOnly(data) ==
    IF Truthy(data.error) THEN data.error
    ELSE IF ~Truthy(data.audio_base64) THEN MissingData
    ELSE <<>>

\* the checks of fetchSummaryAndPlay on the parsed body: the message of the
\* error it throws, or <<>> when it throws none
popup_click_dataError(data) ==
    IF Truthy(data.error) THEN data.error
    ELSE IF ~Truthy(data.summary_text) \/ ~Truthy(data.audio_base64) THEN MissingData
    ELSE <<>>

\* fetchSummaryAndPlay up to its await of fetch; its first line writes
\* RequestingStatus
RequestingStatus == << "Requesting summary from server..." >>

fetchSummaryAndPlay(i, body) ==
    /\ summarizeDisabled' = TRUE
    /\ requests' = [requests EXCEPT ![i] = Append(@, body)]
    /\ pc' = [pc EXCEPT ![i] = "await_fetch"]

\* mutant: the catch sends the request once more
popup_click_catch_retry(i, message) ==
    /\ resetUI(<<StatusError(message), RequestingStatus>>)
    /\ summarizeDisabled' = TRUE
    /\ requests' = [requests EXCEPT ![i] = Append(@, @[1])]
    /\ pc' = [pc EXCEPT ![i] = IF Len(requests[i]) < 2 THEN "await_fetch" ELSE "done"]
    /\ UNCHANGED playing

\* catch (error) and finally of fetchSummaryAndPlay
popup_click_catch(i, message) ==
    /\ resetUI(<<StatusError(message)>>)
    /\ summarizeDisabled' = FALSE
    /\ pc' = [pc EXCEPT ![i] = "done"]
    /\ UNCHANGED << playing, requests >>

\* the click listener of the Summarize button; a disabled button takes no click
SummarizeClicked(i, selectedValue) ==
    /\ script = "popup_click"
    /\ ~summarizeDisabled
    /\ pc[i] = "idle"
    /\ \A j \in Clicks : j < i => pc[j] # "idle"
    /\ IF selectedValue = CurrentTab
       THEN /\ resetUI(<< <<"Getting current tab URL...">> >>)
            /\ pc' = [pc EXCEPT ![i] = "await_tabsQuery"]
            /\ UNCHANGED << requests, summarizeDisabled >>
       ELSE /\ resetUI(<<RequestingStatus>>)
            /\ fetchSummaryAndPlay(i, popup_click_requestBody(selectedValue, Undefined))
    /\ UNCHANGED << script, tab, response, backgroundVars, playing, replays,
                    base64Vars >>

\* chrome.tabs.query has settled in the click listener
ClickTabsQueried(i, t) ==
    /\ script = "popup_click"
    /\ pc[i] = "await_tabsQuery"
    /\ tab' = [tab EXCEPT ![i] = t]
    /\ IF t = NoTab \/ ~IsHttpUrl(t.url)
       THEN /\ updateStatus(<<StatusError(InvalidTabUrl)>>)
            /\ pc' = [pc EXCEPT ![i] = "done"]
            /\ UNCHANGED << requests, summarizeDisabled >>
       ELSE /\ updateStatus(<<RequestingStatus>>)
            /\ fetchSummaryAndPlay(i, popup_click_requestBody(CurrentTab, t.url))
    /\ UNCHANGED << script, response, backgroundVars, summaryContainer,
                    summaryShown, replayDisabled, audioBuffer, playing, replays,
                    base64Vars >>

ClickFetchRejected(i) ==
    /\ script = "popup_click"
    /\ pc[i] = "await_fetch"
    /\ popup_click_catch(i, FailedToFetch)
    /\ UNCHANGED << script, tab, response, backgroundVars, replays, base64Vars >>

ClickFetchResolved(i, r) ==
    /\ script = "popup_click"
    /\ pc[i] = "await_fetch"
    /\ response' = [response EXCEPT ![i] = r]
    /\ pc' = [pc EXCEPT ![i] = IF r.ok THEN "await_json" ELSE "await_errorJson"]
    /\ UNCHANGED << script, tab, requests, backgroundVars, popupVars, base64Vars >>

ClickErrorJsonSettled(i) ==
    /\ script = "popup_click"
    /\ pc[i] = "await_errorJson"
    /\ popup_click_catch(i, popup_click_errorMsg(response[i]))
    /\ response' = [response EXCEPT ![i] = NoResponse]
    /\ UNCHANGED << script, tab, backgroundVars, replays, base64Vars >>

\* response.json() of an ok response has settled in fetchSummaryAndPlay
ClickJsonSettled(i) ==
    /\ script = "popup_click"
    /\ pc[i] = "await_json"
    /\ response' = [response EXCEPT ![i] = NoResponse]
    /\ LET data == response[i].body IN
       IF ~data.json
       THEN popup_click_catch(i, NotValidJson) /\ UNCHANGED arrayBuffer
       ELSE IF popup_click_dataError(data) # <<>>
       THEN popup_click_catch(i, popup_click_dataError(data)) /\ UNCHANGED arrayBuffer
       ELSE \E bytes \in { popup_atobBytes(data.audio_base64) } :
       IF bytes = Thrown
       THEN popup_click_catch(i, NotCorrectlyEncoded) /\ UNCHANGED arrayBuffer
       ELSE /\ summaryContainer' = data.summary_text
            /\ showSummaryArea(TRUE)
            /\ statusDiv' = <<"Decoding audio...">>
            /\ arrayBuffer' = [arrayBuffer EXCEPT ![i] = bytes]
            /\ pc' = [pc EXCEPT ![i] = "await_decodeAudioData"]
            /\ UNCHANGED << replayDisabled, summarizeDisabled, audioBuffer, playing,
                            requests >>
    /\ UNCHANGED << script, tab, notifications, badge, badgeColor, audioContext,
                    currentAudioSource, source, replays, base64Vars >>

\* audioContext.decodeAudioData has settled in fetchSummaryAndPlay
ClickDecodeSettled(i, decoded) ==
    /\ script = "popup_click"
    /\ pc[i] = "await_decodeAudioData"
    /\ IF decoded
       THEN /\ audioBuffer' = i
            /\ replayDisabled' = FALSE
            /\ popup_playAudio(i)
            /\ summarizeDisabled' = FALSE
            /\ pc' = [pc EXCEPT ![i] = "done"]
            /\ UNCHANGED << summaryContainer, summaryShown, requests >>
       ELSE popup_click_catch(i, UnableToDecode)
    /\ UNCHANGED << script, tab, response, backgroundVars, replays, base64Vars >>

PopupClickNext ==
    \/ \E i \in Clicks, v \in SourceOptions : SummarizeClicked(i, v)
    \/ \E i \in Clicks, t \in Tabs \cup { NoTab } : ClickTabsQueried(i, t)
    \/ \E i \in Clicks : ClickFetchRejected(i)
    \/ \E i \in Clicks, r \in ClickResponses : ClickFetchResolved(i, r)
    \/ \E i \in Clicks : ClickErrorJsonSettled(i)
    \/ \E i \in Clicks : ClickJsonSettled(i)
    \/ \E i \in Clicks, decoded \in BOOLEAN : ClickDecodeSettled(i, decoded)

\* ------------------------------------------------------ base64 round trip
\* The server encodes the bytes of the audio; each script converts the string
\* back with its own decoder.
SampleBytes == { 0, 1, 63, 64, 127, 128, 254, 255 }
ByteSeqs == UNION { [1..n -> SampleBytes] : n \in 0..MaxLen }
Pending == << -2 >>

ServerEncodes ==
    /\ script = "base64"
    /\ pc[1] = "encode"
    /\ encoded' = Base64Encode(bytesIn)
    /\ pc' = [pc EXCEPT ![1] = "decode"]
    /\ UNCHANGED << script, tab, response, requests, backgroundVars, popupVars,
                    bytesIn, decodedBackground, decodedPopup >>

BackgroundDecodes ==
    /\ script = "base64"
    /\ pc[1] = "decode"
    /\ decodedBackground = Pending
    /\ decodedBackground' = base64ToArrayBuffer(encoded)
    /\ UNCHANGED << script, handlerVars, backgroundVars, popupVars, bytesIn,
                    encoded, decodedPopup >>

PopupDecodes ==
    /\ script = "base64"
    /\ pc[1] = "decode"
    /\ decodedPopup = Pending
    /\ decodedPopup' = popup_atobBytes(encoded)
    /\ UNCHANGED << script, handlerVars, backgroundVars, popupVars, bytesIn,
                    encoded, decodedBackground >>

\* ------------------------------------------------------------ specification
InitWith(scripts, inputs) ==
    /\ script \in scripts
    /\ pc = [i \in Clicks |->
                IF i # 1 THEN "idle"
                ELSE IF script = "popup_open" THEN "await_tabsQuery"
                ELSE IF script = "base64" THEN "encode"
                ELSE "idle"]
    /\ tab = [i \in Clicks |-> NoTab]
    /\ response = [i \in Clicks |-> NoResponse]
    /\ requests = [i \in Clicks |-> <<>>]
    /\ notifications = [i \in Clicks |-> <<>>]
    /\ badge = [t \in TabIds |-> <<>>]
    /\ badgeColor = [t \in TabIds |-> <<>>]
    /\ audioContext = "null"
    /\ currentAudioSource = 0
    /\ source = [i \in Clicks |-> "none"]
    /\ arrayBuffer = [i \in Clicks |-> <<>>]
    /\ statusDiv = <<>>
    /\ summaryContainer = <<>>
    /\ summaryShown = FALSE
    /\ replayDisabled = TRUE
    /\ summarizeDisabled = FALSE
    /\ audioBuffer = 0
    /\ playing = 0
    /\ replays = 0
    /\ bytesIn \in inputs
    /\ encoded = <<>>
    /\ decodedBackground = Pending
    /\ decodedPopup = Pending

Init == InitWith(Scripts, { <<>> })

Next ==
    \/ BackgroundNext
    \/ PopupOpenNext
    \/ PopupClickNext
    \/ ReplayClicked
    \/ PopupSourceEnded

Spec == Init /\ [][Next]_vars

\* the round trip alone, over every byte sequence of the bound
InitBase64 == InitWith({ "base64" }, ByteSeqs)

NextBase64 ==
    \/ ServerEncodes
    \/ BackgroundDecodes
    \/ PopupDecodes

SpecBase64 == InitBase64 /\ [][NextBase64]_vars

\* a step that continues a listener of the background script suspended in an
\* await
BgContinues ==
    \E i \in Clicks :
        \/ BgBadgeTextSet(i)
        \/ BgFetch(i)
        \/ BgFetchRejected(i)
        \/ \E r \in Responses : BgFetchResolved(i, r)
        \/ BgErrorJsonSettled(i)
        \/ \E created \in ContextOutcomes : BgJsonSettled(i, created)
        \/ \E created \in ContextOutcomes : BgContextClosed(i, created)
        \/ BgContextResumed(i)
        \/ \E decoded \in BOOLEAN : BgDecodeSettled(i, decoded)
        \/ BgBadgeCleared(i)

\* The fetch and every other promise a listener awaits settle in the end: while
\* a listener is suspended, some listener is continued.
BackgroundFairness == WF_vars(BgContinues)

SpecBackgroundFair ==
    /\ InitWith({ "background" }, { <<>> })
    /\ [][BackgroundNext]_vars
    /\ BackgroundFairness

\* ------------------------------------------------------------------- claims
\* the scheme of a URL is http or https
HasHttpScheme(url) ==
    /\ url # Undefined
    /\ \E n \in 1..Len(url) :
        /\ url[n] = ":"
        /\ \A m \in 1..(n - 1) : url[m] # ":"
        /\ SubSeq(url, 1, n - 1) \in { <<"h","t","t","p">>, <<"h","t","t","p","s">> }

\* invocation i has sent a POST whose reply has not been dealt with yet
InFlight(i) ==
    pc[i] \in { "await_fetch", "await_errorJson", "await_json",
                "await_close", "await_resume", "await_decodeAudioData" }

\* C1: an invocation that has POSTed the URL of the current tab works on a tab
\* whose URL is an http or https URL, for each of the three scripts.
C1_NoPostForNonHttpTab ==
    \A i \in Clicks :
        (requests[i] # <<>> /\ "url" \in DOMAIN requests[i][1])
            => HasHttpScheme(tab[i].url)

\* C2: every body sent holds exactly one of url and rss_url, and
\* summarizer_choice = 'gemini'.
C2_ExactlyOneSource ==
    \A i \in Clicks : \A k \in 1..Len(requests[i]) :
        LET body == requests[i][k] IN
        /\ ("url" \in DOMAIN body) # ("rss_url" \in DOMAIN body)
        /\ "summarizer_choice" \in DOMAIN body
        /\ body["summarizer_choice"] = <<"gemini">>

C2_Witness ==
    /\ script = "popup_click"
    /\ \E i, j \in Clicks :
        /\ requests[i] # <<>> /\ "url" \in DOMAIN requests[i][1]
        /\ requests[j] # <<>> /\ "rss_url" \in DOMAIN requests[j][1]

\* The response invocation i holds lets it decode: it is ok, its body is JSON,
\* carries no error (strictly: no error field; else: no non-empty one), a
\* non-empty audio_base64 and, in the popups, a non-empty summary_text.
AllowsDecode(i, strictly) ==
    LET data == response[i].body IN
    /\ pc[i] = "await_json"
    /\ response[i].ok
    /\ data.json
    /\ IF strictly THEN data.error = Undefined ELSE ~Truthy(data.error)
    /\ Truthy(data.audio_base64)
    /\ script # "background" => Truthy(data.summary_text)

DecodeStep(strictly) ==
    /\ \A i \in Clicks :
        \* the base64 string is converted only on such a response
        /\ arrayBuffer'[i] # arrayBuffer[i] => AllowsDecode(i, strictly)
        \* only converted audio is started or kept for replay
        /\ (source'[i] = "playing" /\ source[i] = "none") => arrayBuffer[i] # <<>>
        /\ (audioBuffer' = i /\ audioBuffer # i) => arrayBuffer[i] # <<>>
    \* the popups display the summary text of such a response only
    /\ (summaryContainer' # summaryContainer /\ summaryContainer' # <<>>)
        => \E i \in Clicks : /\ AllowsDecode(i, strictly)
                             /\ summaryContainer' = response[i].body.summary_text
    /\ playing' > playing => audioBuffer' # 0

\* C3 as stated: nothing is decoded, played or displayed unless the response
\* was ok and its body has no error field, a non-empty audio_base64 and, in
\* the popups, a non-empty summary_text.
C3_NoDecodeWithErrorField == [][DecodeStep(TRUE)]_vars

\* C3 as amended: nothing is decoded, played or displayed unless the response
\* was ok and its body has no non-empty error field, a non-empty audio_base64
\* and, in the popups, a non-empty summary_text.
C3_NoDecodeWithError == [][DecodeStep(FALSE)]_vars

C3_Witness ==
    /\ script = "popup_click"
    /\ \E i \in Clicks :
        /\ pc[i] = "done"
        /\ audioBuffer = i
        /\ arrayBuffer[i] = AudioBytes
        /\ summaryContainer = SummaryText
        /\ playing > 0

\* the message the step has reported to the user: the status line without
\* its "Error: ", the last notification of the invocation without its prefix
ReportedNext(i) ==
    IF script = "background"
    THEN LET n == notifications'[i][Len(notifications'[i])].message
         IN  SubSeq(n, 2, Len(n))
    ELSE SubSeq(statusDiv', 2, Len(statusDiv'))

\* C4: when response.json() of a response that is not ok settles, the message
\* reported is the error string of the body if the body is JSON with a
\* non-empty error, and a message with the status code otherwise.
C4_ServerErrorReported ==
    [][\A i \in Clicks :
        (pc[i] = "await_errorJson" /\ pc'[i] # "await_errorJson")
            => LET data == response[i].body IN
               IF data.json /\ Truthy(data.error)
               THEN ReportedNext(i) = data.error
               ELSE \E k \in 1..Len(ReportedNext(i)) :
                        ReportedNext(i)[k] = response[i].status]_vars

\* C5: the bytes either decoder gives for the base64 encoding of a byte
\* sequence are that sequence: the same length, the same bytes in order.
C5_RoundTrip ==
    /\ decodedBackground # Pending
        => /\ Len(decodedBackground) = Len(bytesIn)
           /\ \A k \in 1..Len(bytesIn) : decodedBackground[k] = bytesIn[k]
    /\ decodedPopup # Pending
        => /\ Len(decodedPopup) = Len(bytesIn)
           /\ \A k \in 1..Len(bytesIn) : decodedPopup[k] = bytesIn[k]

C5_Witness ==
    /\ Len(bytesIn) >= 2
    /\ bytesIn[Len(bytesIn)] = 255
    /\ decodedBackground = bytesIn
    /\ decodedPopup = bytesIn

\* C6: an invocation sends at most one POST, whatever becomes of it, and none
\* is sent for an invocation no user action has started.
C6_AtMostOnePost ==
    \A i \in Clicks :
        /\ Len(requests[i]) <= 1
        /\ pc[i] = "idle" => requests[i] = <<>>

C6_Witness ==
    /\ script = "popup_click"
    /\ \E i \in Clicks :
        /\ pc[i] = "done"
        /\ Len(requests[i]) = 1
        /\ statusDiv = StatusError(FailedToFetch)

\* C7: a toolbar click that has ended has created no notification if its
\* audio was started, and exactly one otherwise.
C7_OneNotificationPerFailure ==
    \A i \in Clicks :
        (script = "background" /\ pc[i] = "done")
            => IF source[i] # "none"
               THEN notifications[i] = <<>>
               ELSE Len(notifications[i]) = 1

\* C8: a click on an http(s) tab sets the badge of the tab to '...' with no
\* request sent yet; a click on another tab leaves every badge as it is; and
\* once the request of a click is sent the badge of its tab is '' again at
\* some later time.
C8_BadgeSetAndCleared ==
    /\ [][\A i \in Clicks :
            (pc[i] = "idle" /\ pc'[i] # "idle")
                => IF HasHttpScheme(tab'[i].url)
                   THEN badge'[tab'[i].id] = <<"...">> /\ requests'[i] = <<>>
                   ELSE badge' = badge]_vars
    /\ \A i \in Clicks :
        (pc[i] = "await_fetch")
            ~> (tab[i] # NoTab /\ badge[tab[i].id] = <<>> /\ ~InFlight(i))

C8_Witness ==
    /\ script = "background"
    /\ \E i \in Clicks :
        /\ pc[i] = "done"
        /\ requests[i] # <<>>
        /\ source[i] = "playing"
        /\ badge[tab[i].id] = <<>>

\* the step ends a request of invocation i in failure
FailureStep(i) ==
    /\ InFlight(i)
    /\ pc'[i] = "done"
    /\ ~(pc[i] = "await_decodeAudioData" /\ playing' = playing + 1)

\* C9: in the popups, the step that ends a request in failure leaves the
\* summary container empty, the replay button disabled and 'Error: <message>'
\* in the status line; with the Summarize button it also leaves the summary
\* area hidden and audioBuffer null.
C9_NoPartialResult ==
    [][\A i \in Clicks :
        (script \in { "popup_open", "popup_click" } /\ FailureStep(i))
            => /\ summaryContainer' = <<>>
               /\ replayDisabled'
               /\ Len(statusDiv') >= 2
               /\ statusDiv'[1] = "Error: "
               /\ script = "popup_click" => (~summaryShown' /\ audioBuffer' = 0)]_vars

C9_Witness ==
    /\ script \in { "popup_open", "popup_click" }
    /\ \E i \in Clicks : pc[i] = "done" /\ arrayBuffer[i] # <<>>
    /\ statusDiv = StatusError(UnableToDecode)
    /\ summaryContainer = <<>>
    /\ replayDisabled

\* C10: in the popup with the Summarize button at most one request is in
\* flight, and the button is disabled from the accepted click until the
\* request of the click has completed.
C10_OneRequestInFlight ==
    script = "popup_click"
        => /\ Cardinality({ i \in Clicks : InFlight(i) }) <= 1
           /\ (\E i \in Clicks : InFlight(i) \/ pc[i] = "await_tabsQuery")
                => summarizeDisabled

\* C11: in the popup with the Summarize button, the step that settles a
\* request leaves the button enabled, and no step enables the button while a
\* request, which disabled it when it was sent, is still in flight.
C11_ButtonReenabledAfterRequest ==
    [][script = "popup_click"
        => /\ \A i \in Clicks :
                (InFlight(i) /\ ~InFlight(i)') => ~summarizeDisabled'
           /\ (summarizeDisabled /\ ~summarizeDisabled')
                => \A i \in Clicks : ~InFlight(i)']_vars

\* C12: in the background script at most one source started by playAudio is
\* playing.
C12_OneSourcePlaying ==
    script = "background"
        => Cardinality({ i \in Clicks : source[i] = "playing" }) <= 1

\* C13: in the background script currentAudioSource references every source
\* that has been started and has neither ended nor been stopped.
C13_CurrentSourceTracked ==
    \A i \in Clicks :
        (script = "background" /\ source[i] = "playing") => currentAudioSource = i

\* the status line playAudio of the popup leaves when it is given no buffer
NoAudioAvailable == StatusError(<<"No audio available.">>)

\* C14: in the popups the replay button is enabled only while audioBuffer
\* holds the buffer decoded from the audio of a response, and a click on the
\* replay button does not leave 'Error: No audio available.'.
C14_ReplayHasBuffer ==
    [][(script \in { "popup_open", "popup_click" })
        => /\ ~replayDisabled'
                => (audioBuffer' # 0 /\ arrayBuffer'[audioBuffer'] # <<>>)
           /\ replays' # replays => (statusDiv' # NoAudioAvailable)]_vars

C14_Witness ==
    /\ script = "popup_click"
    /\ replays > 0
    /\ ~replayDisabled
    /\ audioBuffer # 0
    /\ statusDiv = <<"Playing summary...">>

\* the summary text and the audio bytes of one ok response
SameResponse(text, bytes) ==
    \E r \in ClickResponses :
        /\ r.ok
        /\ r.body.json
        /\ r.body.summary_text = text
        /\ Truthy(r.body.audio_base64)
        /\ popup_atobBytes(r.body.audio_base64) = bytes

\* C15: in the popups, while the replay button is enabled, the summary text
\* displayed and the audio kept in audioBuffer come from the same response.
C15_NoMixedResults ==
    (script \in { "popup_open", "popup_click" } /\ ~replayDisabled /\ audioBuffer # 0)
        => SameResponse(summaryContainer, arrayBuffer[audioBuffer])

\* the status lines that report a failed request: 'Error: <message>' other
\* than the errors of a click the popup reports without a request
RequestErrorShown ==
    /\ Len(statusDiv) >= 2
    /\ statusDiv[1] = "Error: "
    /\ statusDiv \notin { NoAudioAvailable, StatusError(InvalidTabUrl),
                          StatusError(<<"Could not get current tab URL.">>) }

\* C16: in the popups, while the status line shows the error of a failed
\* request, only a click on Summarize or on Replay changes it.
C16_ErrorStatusStays ==
    [][(script \in { "popup_open", "popup_click" } /\ RequestErrorShown)
        => \/ statusDiv' = statusDiv
           \/ \E i \in Clicks : pc[i] = "idle" /\ pc'[i] # "idle"
           \/ replays' # replays]_vars

====
